---- MODULE Spec2Model ----
(***************************************************************************)
(* Maze-wars UDP game: the player registry and the join / move / shoot     *)
(* handlers of `impl Server` (server/src/server/message_handlers.rs), the  *)
(* earlier dispatch loop of server/src/server/server.rs, the frame loop of *)
(* the SDL client (client/src/main.rs) and the avatar entities of the Bevy *)
(* client (client/src/player_network), modelled as state machines over the *)
(* datagrams they receive and the datagrams they send.                     *)
(***************************************************************************)
EXTENDS Integers, Sequences, FiniteSets, TLC

(***************************************************************************)
(* Bounds of the model and constants of the program.                       *)
(***************************************************************************)

\* Client addresses (SocketAddr) and the usernames clients may choose.
Addrs == {"a1", "a2", "a3"}
Names == {"alice", "bob", "carol"}

\* Server::min_players(2) in main.rs.
MinPlayers == 2

\* Server::max_players(..): main.rs passes 10; the model instantiates the
\* parameter with a small value so that a full registry is reached.
MaxPlayers == 2

\* Player::new(.., 100, ..): the health a record is created with.
InitialHealth == 100

\* saturating_sub(10): the damage of one ShotPlayer.
Damage == 10

\* "starting 5 seconds timer until game begins".
CountdownSecs == 5

\* Shots counted against one record before the model stops shooting at it:
\* the shots that bring a record from full health to 0, and one more, which
\* hits a record that is already at 0.
MaxHits == (InitialHealth \div Damage) + 1

\* The clock (Instant::now(), in seconds) stops advancing here.
MaxTime == 6

\* (rand::thread_rng().gen_range(0..3) + 1) as u8
MazeLevels == 1..3

\* Option::None of game_start_time: Option<Instant>.
None == -1

\* Values of a Position, a Rotation (Default::default() is 0) and of
\* yield_control.
Positions == {0, 1}
Rotations == {0, 1}
YieldValues == {0, 1}

\* The name typed at the prompt of the SDL client (main.rs 269).
ClientUsername == "alice"

\* Cells the SDL client's own Player3D can stand on: Position::default(),
\* the cell of (1.5, 1.5) where Player3D is created, one more free cell of
\* the maze, and the spawn points of the loaded level (ten in map.rs, two
\* here, so that a lobby list can be longer than the list of spawn points).
DefaultCell == 0
StartCell == 1
WalkCells == {1, 2}
LevelSpawns == <<3, 4>>

\* player.angle in steps of 0.1 rad.
Angles == 0 .. 1

\* Key presses polled in one frame of the SDL client.
MaxKeys == 1

\* NetworkEvents read in one run of a Bevy system, and the NetworkedPlayer
\* entities the model lets exist.
MaxEvents == 2
MaxEntities == 3
\* The datagrams queued for the client beyond which the server is not
\* given a further datagram.
MaxInbox == 2

(***************************************************************************)
(* State.                                                                  *)
(***************************************************************************)
VARIABLES
    players,          \* Game.players: HashMap<SocketAddr, Player>
    state,            \* Game.state: GameState
    game_start_time,  \* Game.game_start_time: Option<Instant>
    maze_level,       \* Game.maze_level: u8
    now,              \* the clock read by Instant::now()
    out,              \* the sends of the last step, in order
    hits,             \* ghost: ShotPlayer events applied to the record at an address
    lg_players,       \* server.rs GameState.players
    is_game_started,  \* server.rs GameState.is_game_started
    lg_out,           \* server.rs: the sends of the last loop iteration
    lg_running,       \* server.rs: the loop of run_udp_server has not returned
    lg_decoded,       \* ghost: the datagram of the last iteration decoded
    running,          \* client main.rs: `running`, the guard of the frame loop
    game_started,     \* client main.rs: GameStart was received
    player_dead,      \* client main.rs: PlayerDeath for the own username was received
    game_over,        \* client main.rs: GameOver was received
    winner_name,      \* client main.rs: GameOver.winner, "" before
    spawn_assigned,   \* client main.rs: the spawn point was taken
    player_health,    \* client main.rs: health shown in the HUD
    other_players,    \* client main.rs: HashMap<String, (Position, Rotation)>
    player,           \* client main.rs: Player3D {x, y, angle}
    spawns,           \* client main.rs: spawn points of the loaded level
    last_sent_position,  \* client main.rs
    last_sent_rotation,  \* client main.rs
    cl_sent,          \* client main.rs: the client.send calls of the last frame, in order
    last_move,        \* ghost: position and rotation of the last Move sent, << >> before
    networked_players, \* Bevy client: the NetworkedPlayer entities, in query order
    game_state,       \* menu client: State<GameState>, the screen shown
    next_state,       \* menu client: NextState<GameState>
    menu_state,       \* menu client: the MenuState resource
    inbox             \* the datagrams on their way to the SDL client, oldest first

refVars == <<players, state, game_start_time, maze_level, now, out, hits>>
lgVars == <<lg_players, is_game_started, lg_out, lg_running, lg_decoded>>
clVars == <<running, game_started, player_dead, game_over, winner_name,
            spawn_assigned, player_health, other_players, player, spawns,
            last_sent_position, last_sent_rotation, cl_sent, last_move>>
bvVars == <<networked_players>>
menuVars == <<game_state, next_state, menu_state>>
netVars == <<inbox>>
clientVars == <<clVars, bvVars, menuVars, netVars>>
vars == <<players, state, game_start_time, maze_level, now, out, hits,
          lg_players, is_game_started, lg_out, lg_running, lg_decoded,
          running, game_started, player_dead, game_over, winner_name,
          spawn_assigned, player_health, other_players, player, spawns,
          last_sent_position, last_sent_rotation, cl_sent, last_move,
          networked_players, game_state, next_state, menu_state, inbox>>

(***************************************************************************)
(* Messages (shared/src/server).                                           *)
(***************************************************************************)
JoinGame(username) == [type |-> "JoinGame", username |-> username]
Move(position, rotation, yield_control) ==
    [type |-> "Move", position |-> position, rotation |-> rotation,
     yield_control |-> yield_control]
ShotPlayer(player_username) ==
    [type |-> "ShotPlayer", player_username |-> player_username]

Error(message) == [type |-> "Error", message |-> message]
JoinGameError(message) == [type |-> "JoinGameError", message |-> message]
GameStart == [type |-> "GameStart"]
GameStartLevel(level) == [type |-> "GameStart", maze_level |-> level]
PlayersInLobby(player_count, names) ==
    [type |-> "PlayersInLobby", player_count |-> player_count, players |-> names]
PlayerMove(player_id, position, rotation, yield_control) ==
    [type |-> "PlayerMove", player_id |-> player_id, position |-> position,
     rotation |-> rotation, yield_control |-> yield_control]
HealthUpdate(player_id, health) ==
    [type |-> "HealthUpdate", player_id |-> player_id, health |-> health]
PlayerDeath(player_id, killer_id) ==
    [type |-> "PlayerDeath", player_id |-> player_id, killer_id |-> killer_id]
GameOver(winner) == [type |-> "GameOver", winner |-> winner]

(***************************************************************************)
(* Transport helpers (message_helpers.rs).  A send is recorded as the      *)
(* message, the set of addresses it goes to, and whether the lock of the   *)
(* match (the Mutex around Game) is held while the datagrams are sent.     *)
(***************************************************************************)

\* Every call of send_message comes after `let mut state =
\* game_state.lock().await` in its handler, and the guard lives to the end
\* of the handler.
send_message(message, addr) == [to |-> {addr}, msg |-> message, locked |-> TRUE]

\* Every call of broadcast_message passes &state.players, the registry
\* borrowed from the guard of the lock, which is thus alive during the
\* sends.
broadcast_message(message, ps) == [to |-> DOMAIN ps, msg |-> message, locked |-> TRUE]

\* The variant of broadcast_message for timer tasks: it is given a map of
\* players and takes no lock.
broadcast_message_static(message, ps) ==
    [to |-> DOMAIN ps, msg |-> message, locked |-> FALSE]

(***************************************************************************)
(* Registry helpers.                                                       *)
(***************************************************************************)
PlayerNew(username, health) ==
    [username |-> username, position |-> 0, rotation |-> 0, health |-> health]

\* HashMap::insert: adds the key or overwrites the record stored under it.
Insert(ps, addr, p) ==
    [a \in (DOMAIN ps) \cup {addr} |-> IF a = addr THEN p ELSE ps[a]]

PlayerCount(ps) == Cardinality(DOMAIN ps)

\* The usernames the records carry.
Usernames(ps) == {ps[a].username : a \in DOMAIN ps}

\* Variant of UsernameList: only the players that are still alive are
\* listed.
UsernameListAlive(ps) ==
    [u \in {ps[a].username : a \in {b \in DOMAIN ps : ps[b].health > 0}} |->
        Cardinality({a \in DOMAIN ps : ps[a].username = u})]

\* state.players.values().map(|p| p.username.clone()).collect(): the Vec of
\* usernames, in the arbitrary order of the HashMap, as a bag (username ->
\* number of occurrences).
UsernameList(ps) ==
    [u \in Usernames(ps) |-> Cardinality({a \in DOMAIN ps : ps[a].username = u})]

\* Variant of UsernameTaken: the duplicate check is left out, as in
\* handle_join_game of server.rs.
UsernameTakenNever(ps, username) == FALSE

\* state.players.values().any(|p| p.username == username)
UsernameTaken(ps, username) == \E a \in DOMAIN ps : ps[a].username = username

\* Variant of ServerFull: the limit is applied one join early.
ServerFullEarly(ps) == PlayerCount(ps) + 1 >= MaxPlayers

\* state.players.len() >= self.max_players
ServerFull(ps) == PlayerCount(ps) >= MaxPlayers

\* Variant of SaturatingSub: a plain subtraction, whose result leaves the
\* range of health once it is applied to a health below the damage.
PlainSub(h, d) == h - d

\* u32::saturating_sub
SaturatingSub(h, d) == IF h >= d THEN h - d ELSE 0

\* Variant of AlivePlayers: the health filter is left out.
AlivePlayersAll(ps) == DOMAIN ps

\* state.players.values().filter(|p| p.health > 0)
AlivePlayers(ps) == {a \in DOMAIN ps : ps[a].health > 0}

(***************************************************************************)
(* Init: Game::new() and Server::new().                                    *)
(***************************************************************************)
Init ==
    /\ players = << >>
    /\ state = "Waiting"
    /\ game_start_time = None
    /\ maze_level \in MazeLevels
    /\ now = 0
    /\ out = << >>
    /\ hits = << >>
    /\ lg_players = << >>
    /\ is_game_started = FALSE
    /\ lg_out = << >>
    /\ lg_running = TRUE
    /\ lg_decoded = TRUE
    \* client main.rs 273-312: JoinGame is sent before the loop is entered.
    /\ running = TRUE
    /\ game_started = FALSE
    /\ player_dead = FALSE
    /\ game_over = FALSE
    /\ winner_name = ""
    /\ spawn_assigned = FALSE
    /\ player_health = InitialHealth
    /\ other_players = << >>
    /\ player = [cell |-> StartCell, angle |-> 0]
    /\ spawns = << >>
    /\ last_sent_position = DefaultCell
    /\ last_sent_rotation = 0
    /\ cl_sent = <<JoinGame(ClientUsername)>>
    /\ last_move = << >>
    \* Bevy client: no NetworkedPlayer entity exists at startup.
    /\ networked_players = << >>
    \* Menu client: GameState::default(), NextState::Unchanged and
    \* MenuState::default().
    /\ game_state = "MainMenu"
    /\ next_state = "Unchanged"
    /\ menu_state = [connection_status |-> "Disconnected", error_message |-> "None",
                     player_list |-> << >>, player_count |-> 0]
    \* No datagram is on its way to the client.
    /\ inbox = << >>

(***************************************************************************)
(* impl Server (message_handlers.rs).                                      *)
(***************************************************************************)

\* Variant of ShouldArm: the timer is armed one join early.
ShouldArmEarly(ps, st, gst) ==
    /\ PlayerCount(ps) + 1 >= MinPlayers
    /\ PlayerCount(ps) <= MaxPlayers
    /\ st = "Waiting"
    /\ gst = None

\* The condition under which a join arms the start timer.
ShouldArm(ps, st, gst) ==
    /\ PlayerCount(ps) >= MinPlayers
    /\ PlayerCount(ps) <= MaxPlayers
    /\ st = "Waiting"
    /\ gst = None

\* The PlayersInLobby response built after the insert.
LobbyMessage(ps) == PlayersInLobby(PlayerCount(ps), UsernameList(ps))

handle_join_game(addr, username) ==
    /\ IF UsernameTaken(players, username)
       THEN /\ out' = <<send_message(JoinGameError("Username already taken"), addr)>>
            /\ UNCHANGED <<players, game_start_time, hits>>
       ELSE IF ServerFull(players)
       THEN /\ out' = <<send_message(JoinGameError("Server is full"), addr)>>
            /\ UNCHANGED <<players, game_start_time, hits>>
       ELSE LET ps == Insert(players, addr, PlayerNew(username, InitialHealth))
                arm == ShouldArm(ps, state, game_start_time)
            IN  /\ players' = ps
                /\ game_start_time' = IF arm THEN now ELSE game_start_time
                /\ out' = (IF arm THEN <<broadcast_message(GameStart, ps)>> ELSE << >>)
                            \o <<broadcast_message(LobbyMessage(ps), ps)>>
                /\ hits' = Insert(hits, addr, 0)
    /\ UNCHANGED <<state, maze_level, now, lgVars, clientVars>>

\* Variant of MoveEcho: yield_control is not echoed; the default is sent.
MoveEchoNoYield(p, yield_control) ==
    PlayerMove(p.username, p.position, p.rotation, 0)

\* The PlayerMove echo built from the updated record.
MoveEcho(p, yield_control) ==
    PlayerMove(p.username, p.position, p.rotation, yield_control)

\* Variant of MoveRegistry: the Move is taken as a step relative to the
\* stored position and rotation.
MoveRegistryRelative(ps, addr, position, rotation) ==
    [ps EXCEPT ![addr].position = (@ + position) % 2,
               ![addr].rotation = (@ + rotation) % 2]

\* Variant of MoveRegistry: a Move counts only while the match is
\* InProgress and the sender is alive.
MoveRegistryWhilePlaying(ps, addr, position, rotation) ==
    IF state = "InProgress" /\ ps[addr].health > 0
    THEN [ps EXCEPT ![addr].position = position, ![addr].rotation = rotation]
    ELSE ps

\* The registry after `player.position = position; player.rotation =
\* rotation` on the record of a registered sender.
MoveRegistry(ps, addr, position, rotation) ==
    [ps EXCEPT ![addr].position = position, ![addr].rotation = rotation]

handle_move(addr, position, rotation, yield_control) ==
    /\ IF addr \in DOMAIN players
       THEN LET ps == MoveRegistry(players, addr, position, rotation)
            IN  /\ players' = ps
                /\ out' = <<broadcast_message(MoveEcho(ps[addr], yield_control), ps)>>
       ELSE /\ out' = << >>
            /\ UNCHANGED players
    /\ UNCHANGED <<state, game_start_time, maze_level, now, hits, lgVars, clientVars>>

\* The addresses whose record carries the username a ShotPlayer names.
TargetsOf(ps, player_to_shoot) ==
    {a \in DOMAIN ps : ps[a].username = player_to_shoot}

\* Variant of ApplyDamage: a shot at a record that was already hit changes
\* nothing, as if repeated ShotPlayer datagrams were recognised.
ApplyDamageOnce(ps, target_addr) ==
    [ps EXCEPT ![target_addr].health =
        IF @ = InitialHealth THEN SaturatingSub(@, Damage) ELSE @]

\* The registry after the damage of one shot at target_addr.
ApplyDamage(ps, target_addr) ==
    [ps EXCEPT ![target_addr].health = SaturatingSub(@, Damage)]

\* Variant of DeathSends: the killer is not reported, as in
\* update_player_health of server.rs (killer_id: None).
DeathSendsNoKiller(ps, target_addr, shooter_username) ==
    IF ps[target_addr].health = 0
    THEN <<broadcast_message(PlayerDeath(ps[target_addr].username, "None"), ps)>>
    ELSE << >>

\* PlayerDeath is emitted when the health after the damage is 0.
DeathSends(ps, target_addr, shooter_username) ==
    IF ps[target_addr].health = 0
    THEN <<broadcast_message(PlayerDeath(ps[target_addr].username, shooter_username), ps)>>
    ELSE << >>

\* Variant of GameOverSends: the handler ends after PlayerDeath, as
\* handle_shoot of server.rs does, and never announces a winner.
GameOverSendsNone(ps) == << >>

\* GameOver is emitted when exactly one record has health above 0.
GameOverSends(ps) ==
    IF Cardinality(AlivePlayers(ps)) = 1
    THEN <<broadcast_message(
             GameOver(ps[CHOOSE a \in AlivePlayers(ps) : TRUE].username), ps)>>
    ELSE << >>

\* Variant of ShooterNotFound: the unknown sender is told so.
ShooterNotFoundReply(addr) == <<send_message(Error("Shooter not found"), addr)>>

\* The sends of handle_shoot when no record is stored under the sender's
\* address: a warning is logged and the handler returns.
ShooterNotFound(addr) == << >>

\* Variant of TargetNotFound: the sender is told that the target is unknown.
TargetNotFoundReply(addr) == <<send_message(Error("Player to shoot not found"), addr)>>

\* The sends of handle_shoot when no record carries the username named: a
\* warning is logged and the handler returns.
TargetNotFound(addr) == << >>

handle_shoot(addr, player_to_shoot) ==
    /\ IF addr \notin DOMAIN players
       THEN /\ out' = ShooterNotFound(addr)
            /\ UNCHANGED <<players, hits>>
       ELSE IF TargetsOf(players, player_to_shoot) = {}
       THEN /\ out' = TargetNotFound(addr)
            /\ UNCHANGED <<players, hits>>
       ELSE \E target_addr \in TargetsOf(players, player_to_shoot) :
              LET shooter_username == players[addr].username
                  ps == ApplyDamage(players, target_addr)
                  death == DeathSends(ps, target_addr, shooter_username)
                  over == GameOverSends(ps)
              IN  /\ players' = ps
                  /\ out' = <<broadcast_message(
                                HealthUpdate(ps[target_addr].username,
                                             ps[target_addr].health), ps)>>
                              \o death \o over
                  /\ hits' = [hits EXCEPT ![target_addr] = @ + 1]
    /\ UNCHANGED <<state, game_start_time, maze_level, now, lgVars, clientVars>>

\* One second passes on the clock the handlers read.
Tick ==
    /\ now < MaxTime
    /\ now' = now + 1
    /\ out' = << >>
    /\ UNCHANGED <<players, state, game_start_time, maze_level, hits, lgVars, clientVars>>

\* The background countdown ticker (its code is not part of the sources
\* modelled here; this is the behaviour the specification gives it): every
\* second it re-evaluates the arming of the start timer and, once
\* CountdownSecs have elapsed since arming, moves the match from Waiting to
\* InProgress and broadcasts GameStart with the maze level.
countdown_tick ==
    /\ now < MaxTime
    /\ now' = now + 1
    /\ LET armed == IF PlayerCount(players) < MinPlayers THEN None
                    ELSE IF game_start_time = None THEN now'
                    ELSE game_start_time
           elapsed == /\ state = "Waiting"
                      /\ armed # None
                      /\ now' >= armed + CountdownSecs
       IN  /\ game_start_time' = armed
           /\ state' = IF elapsed THEN "InProgress" ELSE state
           /\ out' = IF elapsed
                     THEN <<broadcast_message_static(GameStartLevel(maze_level), players)>>
                     ELSE << >>
    /\ UNCHANGED <<players, maze_level, hits, lgVars, clientVars>>

RecvJoinGame == \E addr \in Addrs, username \in Names : handle_join_game(addr, username)

RecvMove ==
    \E addr \in Addrs, position \in Positions, rotation \in Rotations,
       yield_control \in YieldValues :
        handle_move(addr, position, rotation, yield_control)

\* A ShotPlayer datagram; the model stops shooting at a record that has
\* taken `limit` shots.
RecvShotPlayer(limit) ==
    \E addr \in Addrs, username \in Names :
        /\ handle_shoot(addr, username)
        /\ \A a \in DOMAIN hits' : hits'[a] <= limit

RecvShotPlayerAny == RecvShotPlayer(MaxHits)
RecvShotPlayerOnce == RecvShotPlayer(1)

\* The three message kinds together; a record is shot at most once.
Next == RecvJoinGame \/ RecvMove \/ RecvShotPlayerOnce
Spec == Init /\ [][Next]_vars

\* The lobby: joins and the passage of time.
NextLobby == RecvJoinGame \/ Tick
SpecLobby == Init /\ [][NextLobby]_vars

\* Combat: joins and shots down to health 0 and beyond.
NextShoot == RecvJoinGame \/ RecvShotPlayerAny
SpecShoot == Init /\ [][NextShoot]_vars

\* A ShotPlayer sent by a client that shoots only once the match runs.
RecvShotPlayerInGame == state = "InProgress" /\ RecvShotPlayerAny

\* A whole match: joins, the countdown ticker, and shots once the match is
\* InProgress.
NextMatch == RecvJoinGame \/ countdown_tick \/ RecvShotPlayerInGame
SpecMatch == Init /\ [][NextMatch]_vars

\* The JoinGame datagrams of two clients, alice and bob.
RecvJoinGamePair ==
    \E addr \in {"a1", "a2"}, username \in {"alice", "bob"} :
        handle_join_game(addr, username)

\* A Move that changes the position only.
RecvMovePosition ==
    \E addr \in Addrs, position \in Positions : handle_move(addr, position, 0, 0)

\* A ShotPlayer that names bob, from any sender, bob included.
RecvShotPlayerAtBob ==
    \E addr \in Addrs :
        /\ handle_shoot(addr, "bob")
        /\ \A a \in DOMAIN hits' : hits'[a] <= MaxHits

\* Moves and shots in every match state: before the countdown has elapsed,
\* while the match is InProgress, and after the last shot that counts.
NextRelay ==
    RecvJoinGamePair \/ countdown_tick \/ RecvMovePosition \/ RecvShotPlayerAtBob
SpecRelay == Init /\ [][NextRelay]_vars

\* The joins of the dispatcher interleaved with the countdown ticker, both
\* working on the shared Game under its lock: each step is one critical
\* section.
NextCountdown == RecvJoinGamePair \/ countdown_tick
SpecCountdown == Init /\ [][NextCountdown]_vars

\* The ticker task wakes up every second, whatever the dispatcher does.
SpecCountdownFair == SpecCountdown /\ WF_vars(countdown_tick)

(***************************************************************************)
(* The dispatch loop of server.rs (bincode protocol, Shoot instead of      *)
(* ShotPlayer).  One step is one iteration of the loop of run_udp_server   *)
(* : the decoding, the handler, then the start check.  A send_to may fail; *)
(* every `?` of the loop and of its handlers then returns the error, out   *)
(* of run_udp_server.                                                      *)
(***************************************************************************)
LegacyPlayer(username) ==
    [username |-> username, position |-> 0, rotation |-> 0,
     health |-> InitialHealth, is_alive |-> TRUE]

PlayerShoot(player_id, position, direction, weapon_type) ==
    [type |-> "PlayerShoot", player_id |-> player_id, position |-> position,
     direction |-> direction, weapon_type |-> weapon_type]
PlayerSpawn(player_id, position) ==
    [type |-> "PlayerSpawn", player_id |-> player_id, position |-> position]

\* broadcast_to_all when every send_to succeeds: one send per key of the
\* registry.  `to` holds the addresses sent to, `failed` the address whose
\* send_to returned an error.  The function takes the lock of the state
\* itself (`let state = game_state.lock().await`) and sends inside the loop
\* over state.players.keys(), with the guard alive.
broadcast_to_all(message, ps) ==
    [to |-> DOMAIN ps, msg |-> message, failed |-> {}, locked |-> TRUE]

\* The orders in which a HashMap of these keys may be iterated.
IterationOrders(S) ==
    {f \in [1..Cardinality(S) -> S] : \A i, j \in DOMAIN f : f[i] = f[j] => i = j}

\* handle_join_game of server.rs: the registry it leaves and what it sends.
legacy_join_players(ps, addr, username) ==
    IF PlayerCount(ps) >= MaxPlayers
    THEN ps
    ELSE Insert(ps, addr, LegacyPlayer(username))

legacy_join_sends(ps, addr, username) ==
    IF PlayerCount(ps) >= MaxPlayers
    THEN << >>
    ELSE LET ps2 == Insert(ps, addr, LegacyPlayer(username))
         IN  <<broadcast_to_all(PlayersInLobby(PlayerCount(ps2), UsernameList(ps2)), ps2)>>

\* should_start_game, evaluated after the handler.
should_start_game(started, ps) == ~started /\ PlayerCount(ps) >= MinPlayers

\* Variant of StartedAfter: the flag is assigned the outcome of the start
\* check instead of being set once.
StartedAfterAssigned(started, ps) == should_start_game(started, ps)

\* is_game_started after the start check: start_game sets it, and nothing
\* else writes it.
StartedAfter(started, ps) == started \/ should_start_game(started, ps)

\* start_game: GameStart, then one PlayerSpawn per record, in iteration order.
start_game_sends(ps, order) ==
    <<broadcast_to_all(GameStart, ps)>>
      \o [i \in DOMAIN order |->
            broadcast_to_all(PlayerSpawn(ps[order[i]].username, ps[order[i]].position), ps)]

\* The addresses to which send_to fails during one iteration: none, or one
\* (the loop of broadcast_to_all stops at the first failure, so that what
\* send_to would do with later addresses does not matter).
FailingSets(ps) == {{}} \cup {{a} : a \in DOMAIN ps}

SendFails(send, down) == send.to \cap down # {}

\* broadcast_to_all when a send_to fails: the addresses before the failing
\* one, in iteration order, have been sent to; `?` skips the rest.
Interrupted(send, order, down) ==
    LET k == CHOOSE i \in DOMAIN order :
                 order[i] \in down /\ \A j \in 1..(i - 1) : order[j] \notin down
    IN  [send EXCEPT !.to = {order[j] : j \in 1..(k - 1)}, !.failed = {order[k]}]

\* The sends of an iteration that are performed: all of them, or those up
\* to the first broadcast that fails.
Performed(sends, order, down) ==
    LET bad == {i \in DOMAIN sends : SendFails(sends[i], down)}
    IN  IF bad = {}
        THEN sends
        ELSE LET k == CHOOSE i \in bad : \A j \in bad : i <= j
             IN  [i \in 1..k |-> IF i < k THEN sends[i]
                                  ELSE Interrupted(sends[i], order, down)]

\* The tail of a loop iteration whose handler has left the registry ps and
\* has `sends` to perform: the sends, the start check and start_game.  An
\* error of the handler leaves the loop before the start check; an error of
\* start_game leaves it after is_game_started is set.
LegacyFinish(ps, sends) ==
    /\ lg_running
    /\ lg_decoded' = TRUE
    /\ lg_players' = ps
    /\ \E order \in IterationOrders(DOMAIN ps), down \in FailingSets(ps) :
         LET start == should_start_game(is_game_started, ps)
             handler_ok == \A i \in DOMAIN sends : ~SendFails(sends[i], down)
             all == sends \o (IF start THEN start_game_sends(ps, order) ELSE << >>)
         IN  /\ lg_out' = Performed(all, order, down)
             /\ is_game_started' = IF handler_ok
                                    THEN StartedAfter(is_game_started, ps)
                                    ELSE is_game_started
             /\ lg_running' = \A i \in DOMAIN all : ~SendFails(all[i], down)
    /\ UNCHANGED <<refVars, clientVars>>

\* A datagram that bincode::deserialize rejects: the `if let Ok(message)`
\* of the loop is skipped, handler and start check included.
legacy_undecodable(addr) ==
    /\ lg_running
    /\ lg_decoded' = FALSE
    /\ lg_out' = << >>
    /\ UNCHANGED <<lg_players, is_game_started, lg_running, refVars, clientVars>>

legacy_handle_join_game(addr, username) ==
    LegacyFinish(legacy_join_players(lg_players, addr, username),
                 legacy_join_sends(lg_players, addr, username))

legacy_handle_move(addr, position, rotation, yield_control) ==
    IF addr \in DOMAIN lg_players
    THEN LET ps == [lg_players EXCEPT ![addr].position = position,
                                      ![addr].rotation = rotation]
         IN  LegacyFinish(ps, <<broadcast_to_all(
                 PlayerMove(ps[addr].username, position, rotation, yield_control), ps)>>)
    ELSE LegacyFinish(lg_players, << >>)

legacy_handle_shoot(addr, direction, weapon_type) ==
    IF addr \in DOMAIN lg_players
    THEN LegacyFinish(lg_players, <<broadcast_to_all(
             PlayerShoot(lg_players[addr].username, lg_players[addr].position,
                         direction, weapon_type), lg_players)>>)
    ELSE LegacyFinish(lg_players, << >>)

LegacyRecvJoinGame ==
    \E addr \in Addrs, username \in Names : legacy_handle_join_game(addr, username)
\* The loop is driven with moves that change the position and keep the
\* default rotation.
LegacyRecvMove ==
    \E addr \in Addrs, position \in Positions, rotation \in {0},
       yield_control \in BOOLEAN :
        legacy_handle_move(addr, position, rotation, yield_control)
LegacyRecvShoot ==
    \E addr \in Addrs, direction \in Rotations :
        legacy_handle_shoot(addr, direction, "pistol")

LegacyRecvUndecodable == \E addr \in Addrs : legacy_undecodable(addr)

NextLegacy ==
    LegacyRecvJoinGame \/ LegacyRecvMove \/ LegacyRecvShoot \/ LegacyRecvUndecodable
SpecLegacy == Init /\ [][NextLegacy]_vars

(***************************************************************************)
(* The SDL client (client/src/main.rs): one action per iteration of the    *)
(* `while running` loop.  An iteration polls the pending key events,       *)
(* takes at most one datagram from the socket, and then sends a Move if    *)
(* the position or the rotation differs from the last one sent.            *)
(***************************************************************************)

\* yield_control: 0.5 of the Moves the client sends.
ClientYield == 1

\* f32::to_degrees of an angle given in steps of 0.1 rad, in hundredths of
\* a degree.
to_degrees(angle) == angle * 573

\* One polled event: the key, the cell the step of a W or S reaches (None
\* when maze_map holds a wall there) and the result of
\* find_target_in_crosshair for a Space (NoTarget when nobody is in the
\* crosshair).
NoTarget == ""
KeyEvent(key, to, target) == [key |-> key, to |-> to, target |-> target]
KeyInputs ==
    {KeyEvent(k, None, NoTarget) : k \in {"Quit", "Escape", "Return", "A", "D", "Other"}}
    \cup {KeyEvent(k, to, NoTarget) : k \in {"W", "S"}, to \in WalkCells \cup {None}}
    \cup {KeyEvent("Space", None, t) : t \in (Names \ {ClientUsername}) \cup {NoTarget}}

RECURSIVE SeqsUpTo(_, _)
SeqsUpTo(S, n) ==
    IF n = 0 THEN {<< >>}
    ELSE LET shorter == SeqsUpTo(S, n - 1)
         IN  shorter \cup {Append(q, e) : q \in shorter, e \in S}

\* find_target_in_crosshair only returns a key of the mirror.
InCrosshair(e, mirror) == e.target # NoTarget /\ e.target \in DOMAIN mirror

\* The body of the Space arm (main.rs 369-373).
shoot_in_crosshair(c, e, mirror) ==
    IF e.key = "Space" /\ InCrosshair(e, mirror)
    THEN [c EXCEPT !.sent = Append(@, ShotPlayer(e.target))]
    ELSE c

\* The arms of `match event` (main.rs 316-376), in their order.  c holds
\* the locals the arms assign: running, player and the sends made so far.
key_event(c, e, mirror) ==
    IF e.key \in {"Quit", "Escape"} THEN [c EXCEPT !.running = FALSE]
    ELSE IF game_over
    THEN IF e.key \in {"Return", "Space"} THEN [c EXCEPT !.running = FALSE] ELSE c
    ELSE IF game_started /\ ~player_dead /\ ~game_over
    THEN CASE e.key \in {"W", "S"} ->
                IF e.to # None THEN [c EXCEPT !.player.cell = e.to] ELSE c
           [] e.key = "A" -> [c EXCEPT !.player.angle = @ - 1]
           [] e.key = "D" -> [c EXCEPT !.player.angle = @ + 1]
           [] e.key = "Space" -> shoot_in_crosshair(c, e, mirror)
           [] OTHER -> c
    ELSE c

RECURSIVE poll_iter(_, _, _)
poll_iter(c, keys, mirror) ==
    IF keys = << >> THEN c
    ELSE poll_iter(key_event(c, Head(keys), mirror), Tail(keys), mirror)

\* What client.try_receive() can return: nothing (no datagram, or one that
\* does not decode), or a ServerMessage.
NoMessage == [type |-> "NoMessage"]
LobbyLists ==
    {q \in SeqsUpTo(Names, 3) : q # << >> /\ \A i, j \in DOMAIN q : i # j => q[i] # q[j]}

\* The datagrams the frames of the match draw from.  The mirror is fed with
\* one value per username here, and with every value in MirrorMessages.
ServerMessages ==
    {GameStartLevel(l) : l \in MazeLevels}
    \cup {HealthUpdate(n, InitialHealth - Damage) : n \in Names}
    \cup {PlayerMove(n, 1, 1, 0) : n \in {ClientUsername, "bob"}}
    \cup {PlayerSpawn(n, 1) : n \in {ClientUsername, "bob"}}
    \cup {PlayerDeath(n, None) : n \in {ClientUsername, "bob"}}
    \cup {JoinGameError("Username already taken"), Error("Player not found")}
    \cup {GameOver("bob")}
    \cup {PlayersInLobby(Len(q), q) : q \in LobbyLists}

\* The datagrams about other players' avatars.
MirrorMessages ==
    {PlayerMove(n, p, r, 0) : n \in Names, p \in Positions, r \in Rotations}
    \cup {PlayerSpawn(n, p) : n \in Names, p \in Positions}
    \cup {PlayerDeath(n, None) : n \in Names}

\* level_1(), level_2(), level_3(): every level brings its spawn points.
level_spawns(level) == LevelSpawns

\* players.iter().position(|p| p == &username), None when absent.
position_of(names, name) ==
    IF \E i \in DOMAIN names : names[i] = name
    THEN CHOOSE i \in DOMAIN names :
            names[i] = name /\ \A j \in DOMAIN names : names[j] = name => i <= j
    ELSE None

\* other_players.insert(player_id, (position, rotation)).
MirrorInsert(mirror, player_id, position, rotation) ==
    [n \in DOMAIN mirror \cup {player_id} |->
        IF n = player_id THEN [position |-> position, rotation |-> rotation]
        ELSE mirror[n]]

\* other_players.remove(&player_id).
MirrorRemove(mirror, player_id) ==
    [n \in DOMAIN mirror \ {player_id} |-> mirror[n]]

\* The PlayersInLobby arm takes a spawn point (main.rs 437-439); the
\* 0-based index of the code is the 1-based index of the model minus one.
TakesSpawn(msg) ==
    /\ msg.type = "PlayersInLobby"
    /\ ~spawn_assigned
    /\ game_started
    /\ position_of(msg.players, ClientUsername) # None
    /\ position_of(msg.players, ClientUsername) <= Len(spawns)

\* The mirror after the `match msg` of main.rs 380-465.
MirrorAfter(mirror, msg) ==
    IF msg.type = "PlayerMove" /\ msg.player_id # ClientUsername
    THEN MirrorInsert(mirror, msg.player_id, msg.position, msg.rotation)
    ELSE IF msg.type = "PlayerDeath" /\ msg.player_id # ClientUsername
    THEN MirrorRemove(mirror, msg.player_id)
    ELSE mirror

\* The last Move of a sequence of sends, or `before` when it holds none.
LastMoveOf(sends, before) ==
    LET moves == SelectSeq(sends, LAMBDA m : m.type = "Move")
    IN  IF moves = << >> THEN before
        ELSE <<moves[Len(moves)].position, moves[Len(moves)].rotation>>

client_frame(keys, msg) ==
    /\ running
    /\ LET c == poll_iter([running |-> TRUE, player |-> player, sent |-> << >>],
                          keys, other_players)
           takes == TakesSpawn(msg)
           player1 == IF takes
                      THEN [c.player EXCEPT
                              !.cell = spawns[position_of(msg.players, ClientUsername)]]
                      ELSE c.player
           position == player1.cell
           rotation == to_degrees(player1.angle)
           sent1 == IF takes
                    THEN Append(c.sent, Move(position, rotation, ClientYield))
                    ELSE c.sent
           dead1 == player_dead
                    \/ (msg.type = "PlayerDeath" /\ msg.player_id = ClientUsername)
           over1 == game_over \/ msg.type = "GameOver"
           moved == /\ ~dead1
                    /\ ~over1
                    /\ (position # last_sent_position \/ rotation # last_sent_rotation)
           sent2 == IF moved
                    THEN Append(sent1, Move(position, rotation, ClientYield))
                    ELSE sent1
       IN  /\ player1.angle \in Angles
           /\ running' = (c.running /\ msg.type \notin {"JoinGameError", "Error"})
           /\ game_started' = (game_started \/ msg.type = "GameStart")
           /\ spawns' = IF msg.type = "GameStart" THEN level_spawns(msg.maze_level)
                        ELSE spawns
           /\ player_health' =
                IF msg.type = "HealthUpdate" /\ msg.player_id = ClientUsername
                THEN msg.health ELSE player_health
           /\ other_players' = MirrorAfter(other_players, msg)
           /\ player_dead' = dead1
           /\ game_over' = over1
           /\ winner_name' = IF msg.type = "GameOver" THEN msg.winner ELSE winner_name
           /\ spawn_assigned' = (spawn_assigned \/ takes)
           /\ player' = player1
           /\ last_sent_position' = IF moved THEN position ELSE last_sent_position
           /\ last_sent_rotation' = IF moved THEN rotation ELSE last_sent_rotation
           /\ cl_sent' = sent2
           /\ last_move' = LastMoveOf(sent2, last_move)
    /\ UNCHANGED <<refVars, lgVars, bvVars, menuVars>>

ClientFrame ==
    \E keys \in SeqsUpTo(KeyInputs, MaxKeys), msg \in ServerMessages \cup {NoMessage} :
        client_frame(keys, msg) /\ UNCHANGED netVars

MirrorFrame ==
    \E keys \in SeqsUpTo(KeyInputs, MaxKeys), msg \in MirrorMessages \cup {NoMessage} :
        client_frame(keys, msg) /\ UNCHANGED netVars

\* The SDL client through a match.
NextClient == ClientFrame
SpecClient == Init /\ [][NextClient]_vars

\* The SDL client and the avatars of the other players.
NextMirror == MirrorFrame
SpecMirror == Init /\ [][NextMirror]_vars

(***************************************************************************)
(* The Bevy client (client/src/player_network/player_network.rs): the      *)
(* NetworkedPlayer entities that stand for the other players.  One action  *)
(* per run of handle_network_player_updates, which reads the NetworkEvents *)
(* of the frame.  A Transform is written through the query at once; the    *)
(* spawns and despawns are Commands, applied when the system has run.      *)
(***************************************************************************)

\* An entity with the components Transform and NetworkedPlayer.
Entity(player_id, position, rotation) ==
    [player_id |-> player_id, position |-> position, rotation |-> rotation]

\* The entities of a username.
EntitiesOf(ents, player_id) == {i \in DOMAIN ents : ents[i].player_id = player_id}

\* The entity a loop over the query meets first among those of a username;
\* `order` is the order in which the query yields the entities.
FirstMatch(ents, order, player_id) ==
    order[CHOOSE k \in DOMAIN order :
            /\ order[k] \in EntitiesOf(ents, player_id)
            /\ \A j \in DOMAIN order :
                 order[j] \in EntitiesOf(ents, player_id) => k <= j]

\* commands.spawn((.., Transform, NetworkedPlayer { player_id })).
spawn_networked_player(b, player_id, position, rotation) ==
    [b EXCEPT !.spawned = Append(@, Entity(player_id, position, rotation))]

update_networked_player(b, order, player_id, position, rotation) ==
    IF EntitiesOf(b.ents, player_id) # {}
    THEN [b EXCEPT !.ents[FirstMatch(b.ents, order, player_id)] =
                        Entity(player_id, position, rotation)]
    ELSE spawn_networked_player(b, player_id, position, rotation)

\* The PlayerDeath arm: despawn the first entity of the username, break.
despawn_first(b, order, player_id) ==
    IF EntitiesOf(b.ents, player_id) # {}
    THEN [b EXCEPT !.despawned = @ \cup {FirstMatch(b.ents, order, player_id)}]
    ELSE b

\* The arms of `match server_msg` (player_network.rs 81-116).
network_event(b, order, msg) ==
    CASE msg.type = "PlayerMove" ->
            update_networked_player(b, order, msg.player_id, msg.position, msg.rotation)
      [] msg.type = "PlayerSpawn" ->
            spawn_networked_player(b, msg.player_id, msg.position, 0)
      [] msg.type = "PlayerDeath" -> despawn_first(b, order, msg.player_id)
      [] OTHER -> b

RECURSIVE read_events(_, _, _)
read_events(b, order, events) ==
    IF events = << >> THEN b
    ELSE read_events(network_event(b, order, Head(events)), order, Tail(events))

\* The entities once the Commands of the run are applied.
RECURSIVE Kept(_, _, _)
Kept(ents, despawned, i) ==
    IF i > Len(ents) THEN << >>
    ELSE (IF i \in despawned THEN << >> ELSE <<ents[i]>>) \o Kept(ents, despawned, i + 1)
ApplyCommands(b) == Kept(b.ents, b.despawned, 1) \o b.spawned

handle_network_player_updates(events, order) ==
    /\ LET b == read_events([ents |-> networked_players, despawned |-> {},
                             spawned |-> << >>], order, events)
       IN  /\ Len(ApplyCommands(b)) <= MaxEntities
           /\ networked_players' = ApplyCommands(b)
    /\ UNCHANGED <<refVars, lgVars, clVars, menuVars, netVars>>

\* The server messages a frame of the Bevy client may bring.
BevyMessages ==
    {PlayerMove(n, p, r, 0) : n \in Names \ {ClientUsername}, p \in Positions,
                              r \in Rotations}
    \cup {PlayerSpawn(n, p) : n \in Names \ {ClientUsername}, p \in Positions}
    \cup {PlayerDeath(n, None) : n \in Names \ {ClientUsername}}
    \cup {GameStart}

BevyFrame ==
    \E events \in SeqsUpTo(BevyMessages, MaxEvents) \ {<< >>},
       order \in IterationOrders(DOMAIN networked_players) :
        handle_network_player_updates(events, order)

NextBevy == BevyFrame
SpecBevy == Init /\ [][NextBevy]_vars

\* The messages of a frame when the server relays the client's own moves,
\* spawn and death back to it along with those of one other player
\* (broadcast_message sends to every registered address, the sender's
\* included).
EchoMessages ==
    {PlayerMove(n, p, r, 0) : n \in {ClientUsername, "bob"}, p \in Positions,
                              r \in Rotations}
    \cup {PlayerSpawn(n, p) : n \in {ClientUsername, "bob"}, p \in Positions}
    \cup {PlayerDeath(n, None) : n \in {ClientUsername, "bob"}}
    \cup {GameStart}

BevyEchoFrame ==
    \E events \in SeqsUpTo(EchoMessages, MaxEvents) \ {<< >>},
       order \in IterationOrders(DOMAIN networked_players) :
        handle_network_player_updates(events, order)

NextEcho == BevyEchoFrame
SpecEcho == Init /\ [][NextEcho]_vars

(***************************************************************************)
(* The menu of the entity-based client (client/src/menu/menu.rs).  One     *)
(* action is one frame: the StateTransition schedule applies a pending     *)
(* NextState, then the Update systems of the menu run if the screen is one *)
(* of the three menus.  A frame brings either server messages or a click.  *)
(***************************************************************************)
MenuScreens == {"MainMenu", "ConnectMenu", "WaitingMenu"}

\* The screen after StateTransition: a pending state is entered.
apply_state_transition(cur, next) == IF next = "Unchanged" THEN cur ELSE next

\* The PlayersInLobby arm: `if !matches!(*game_state,
\* NextState::Pending(GameState::WaitingMenu)) { game_state.set(WaitingMenu) }`.
lobby_next_state(next) ==
    IF next = "WaitingMenu" THEN next ELSE "WaitingMenu"

\* One arm of the `match msg` of handle_connection_status; m is the pair of
\* NextState and MenuState.
connection_status_arm(m, msg) ==
    IF msg.type = "JoinGameError"
    THEN [m EXCEPT !.menu.connection_status = "Failed",
                   !.menu.error_message = "Join failed"]
    ELSE IF msg.type = "PlayersInLobby"
    THEN [next |-> lobby_next_state(m.next),
          menu |-> [m.menu EXCEPT !.connection_status = "Connected",
                                  !.player_list = msg.players,
                                  !.player_count = msg.player_count]]
    ELSE IF msg.type = "GameStart"
    THEN [m EXCEPT !.next = "InGame"]
    ELSE m

\* `for event in network_events.read()`.
RECURSIVE connection_events(_, _)
connection_events(m, events) ==
    IF events = << >> THEN m
    ELSE connection_events(connection_status_arm(m, Head(events)), Tail(events))

\* A frame that brings server messages.
handle_connection_status(events) ==
    /\ LET cur == apply_state_transition(game_state, next_state)
           m == IF cur \in MenuScreens
                THEN connection_events([next |-> "Unchanged", menu |-> menu_state], events)
                ELSE [next |-> "Unchanged", menu |-> menu_state]
       IN  /\ game_state' = cur
           /\ next_state' = m.next
           /\ menu_state' = m.menu
    /\ UNCHANGED <<refVars, lgVars, clVars, bvVars, netVars>>

\* A frame that brings a click: PlayClicked or BackClicked
\* (handle_menu_events).
handle_menu_events(click) ==
    /\ LET cur == apply_state_transition(game_state, next_state)
       IN  /\ game_state' = cur
           /\ next_state' = IF cur \notin MenuScreens THEN "Unchanged"
                             ELSE IF click = "PlayClicked" THEN "ConnectMenu"
                             ELSE "MainMenu"
           /\ menu_state' = IF cur \in MenuScreens /\ click = "BackClicked"
                             THEN [menu_state EXCEPT !.error_message = "None"]
                             ELSE menu_state
    /\ UNCHANGED <<refVars, lgVars, clVars, bvVars, netVars>>

\* The server messages a frame of the menu may bring.
MenuMessages ==
    {GameStart, JoinGameError("Server is full")}
    \cup {PlayersInLobby(Len(q), q) : q \in LobbyLists}

MenuNetworkFrame ==
    \E events \in SeqsUpTo(MenuMessages, MaxEvents) \ {<< >>} :
        handle_connection_status(events)

MenuClickFrame ==
    \E click \in {"PlayClicked", "BackClicked"} : handle_menu_events(click)

NextMenu == MenuNetworkFrame \/ MenuClickFrame
SpecMenu == Init /\ [][NextMenu]_vars

(***************************************************************************)
(* The reference server and the SDL client joined by the socket of the     *)
(* client.  The client alice sends from ClientAddr and registers first;    *)
(* bob registers from a second address, moves, and is shot at.  What a     *)
(* handler sends to ClientAddr is carried to the receive queue of the      *)
(* client before the server takes its next datagram, and the client takes  *)
(* one datagram, the oldest, per iteration of its loop.                    *)
(***************************************************************************)
ClientAddr == "a1"
RemoteAddr == "a2"

\* The messages of a handler's sends that are addressed to the client.
ToClient(sends) ==
    LET mine == SelectSeq(sends, LAMBDA s : ClientAddr \in s.to)
    IN  [i \in DOMAIN mine |-> mine[i].msg]

\* serde_json::from_str(..).ok() of try_receive with the ServerMessage of
\* the shared crate: the unit GameStart of the server does not decode, and
\* the players of PlayersInLobby arrive as a list, in the order q.
from_str(msg, q) ==
    IF msg = GameStart THEN NoMessage
    ELSE IF msg.type = "PlayersInLobby"
    THEN PlayersInLobby(msg.player_count, q)
    ELSE msg

\* The server has taken the sends of its last handler to the network, and
\* the queue of the client has room.
ServerReady == out = << >> /\ Len(inbox) < MaxInbox

SyncJoin ==
    /\ ServerReady
    /\ \/ ClientAddr \notin DOMAIN players /\ handle_join_game(ClientAddr, ClientUsername)
       \/ /\ ClientAddr \in DOMAIN players
          /\ RemoteAddr \notin DOMAIN players
          /\ handle_join_game(RemoteAddr, "bob")

SyncMove ==
    /\ ServerReady
    /\ \E position \in Positions, rotation \in Rotations :
         handle_move(RemoteAddr, position, rotation, 0)

SyncShoot ==
    /\ ServerReady
    /\ handle_shoot(ClientAddr, "bob")
    /\ \A a \in DOMAIN hits' : hits'[a] <= MaxHits

\* The datagrams sent to the client reach its socket, in the order of the
\* send_to calls.
Transmit ==
    /\ out # << >>
    /\ inbox' = inbox \o ToClient(out)
    /\ out' = << >>
    /\ UNCHANGED <<players, state, game_start_time, maze_level, now, hits,
                   lgVars, clVars, bvVars, menuVars>>

\* One iteration of the client loop with no key pressed: try_receive takes
\* the oldest datagram, if there is one.
SyncFrame ==
    \E q \in LobbyLists :
        /\ inbox # << >> /\ Head(inbox).type = "PlayersInLobby"
             => {q[i] : i \in DOMAIN q} = DOMAIN Head(inbox).players
        /\ client_frame(<< >>, IF inbox = << >> THEN NoMessage
                                ELSE from_str(Head(inbox), q))
        /\ inbox' = IF inbox = << >> THEN inbox ELSE Tail(inbox)

ServerStep == SyncJoin \/ SyncMove \/ SyncShoot
NextSync == ServerStep \/ Transmit \/ SyncFrame
SpecSync == Init /\ [][NextSync]_vars

\* The network carries what was sent, and the loop of the client keeps
\* running.
SpecSyncFair == SpecSync /\ WF_vars(Transmit) /\ WF_vars(SyncFrame)

(***************************************************************************)
(* Properties.                                                             *)
(***************************************************************************)
Last(sends) == sends[Len(sends)]
Max0(n) == IF n > 0 THEN n ELSE 0

C2_DuplicateUsernameRejected ==
    [][\A addr \in Addrs, username \in Names :
         (/\ \E a \in DOMAIN players : players[a].username = username
          /\ handle_join_game(addr, username))
         => (/\ players' = players
             /\ Len(out') = 1
             /\ out'[1].to = {addr}
             /\ out'[1].msg.type = "JoinGameError")
      ]_vars

\* C2 witness: a registered sender repeated a taken username and got the
\* error.
C2_Witness ==
    \E addr \in DOMAIN players :
        out = <<send_message(JoinGameError("Username already taken"), addr)>>

\* C3 (as stated, for the loop of server.rs): a JoinGame received while the
\* registry holds max_players records is answered with a JoinGameError to
\* the sender and leaves the registry as it was.
C3_FullServerRejected ==
    [][\A addr \in Addrs, username \in Names :
         (/\ PlayerCount(lg_players) = MaxPlayers
          /\ legacy_handle_join_game(addr, username))
         => (/\ lg_players' = lg_players
             /\ Len(lg_out') >= 1
             /\ lg_out'[1].to = {addr}
             /\ lg_out'[1].msg.type = "JoinGameError")
      ]_vars

\* C4: no two registered addresses carry the same username.
C4_UsernamesUnique ==
    \A a, b \in DOMAIN players :
        a # b => players[a].username # players[b].username

\* C4 witness: a full registry in which a record has moved and a record
\* has been shot.
C4_Witness ==
    /\ Cardinality(DOMAIN players) = MaxPlayers
    /\ \E a \in DOMAIN players : players[a].position # 0
    /\ \E a \in DOMAIN players : players[a].health < InitialHealth

\* C5 (as stated): a GameStart is sent only when the countdown has run,
\* that is CountdownSecs or more after the join that reached min_players
\* armed the timer.
C5_GameStartAfterCountdown ==
    \A i \in DOMAIN out :
        out[i].msg.type = "GameStart"
            => (game_start_time # None /\ now >= game_start_time + CountdownSecs)

\* C7: the health of every registered record is within 0..100.
C7_HealthInRange ==
    \A a \in DOMAIN players : players[a].health \in 0..InitialHealth

\* C7 witness: a record at health 0 has been shot once more and is still
\* at 0.
C7_Witness ==
    \E a \in DOMAIN players : hits[a] = MaxHits /\ players[a].health = 0

\* C8 (as stated): PlayerDeath is broadcast for a player once, by the shot
\* that brings its health to 0; a message handled while the record is
\* already at health 0 broadcasts no further PlayerDeath for it.
C8_PlayerDeathExactlyOnce ==
    [][\A a \in DOMAIN players :
         (/\ Cardinality(DOMAIN players) >= 2
          /\ players[a].health = 0)
         => \A i \in DOMAIN out' :
                ~(/\ out'[i].msg.type = "PlayerDeath"
                  /\ out'[i].msg.player_id = players[a].username)
      ]_vars

\* C9 (as stated): with two or more records of which exactly one, w, has
\* health above 0, and the GameOver naming w broadcast, a message handled
\* afterwards broadcasts no second GameOver.
C9_GameOverExactlyOnce ==
    [][\A w \in DOMAIN players :
         (/\ Cardinality(DOMAIN players) >= 2
          /\ AlivePlayers(players) = {w}
          /\ \E i \in DOMAIN out : out[i].msg = GameOver(players[w].username))
         => \A i \in DOMAIN out' : out'[i].msg.type # "GameOver"
      ]_vars

\* The health of every record is 100 less 10 per shot at it, and not
\* below 0.
HealthByHits ==
    \A a \in DOMAIN players :
        players[a].health = Max0(InitialHealth - Damage * hits[a])

C11_MoveEchoed ==
    [][\A addr \in Addrs, position \in Positions, rotation \in Rotations,
          yield_control \in YieldValues :
         (/\ addr \in DOMAIN players
          /\ handle_move(addr, position, rotation, yield_control))
         => (/\ Len(out') = 1
             /\ out'[1].to = DOMAIN players
             /\ out'[1].msg = PlayerMove(players[addr].username, position,
                                         rotation, yield_control)
             /\ DOMAIN players' = DOMAIN players
             /\ players'[addr].position = position
             /\ players'[addr].rotation = rotation
             /\ players'[addr].username = players[addr].username
             /\ \A a \in DOMAIN players \ {addr} : players'[a] = players[a])
      ]_vars

\* C11 witness: with two records, one of them has moved to position 1 with
\* rotation 1 and the move was echoed with yield_control 1.
C11_Witness ==
    \E addr \in DOMAIN players :
        /\ Cardinality(DOMAIN players) = 2
        /\ players[addr].position = 1
        /\ players[addr].rotation = 1
        /\ Len(out) = 1
        /\ out[1].msg = PlayerMove(players[addr].username, 1, 1, 1)

\* C12: a Move or a ShotPlayer from an address under which no record is
\* stored leaves the registry, the match state, the start timer and the
\* maze level as they were and sends nothing, neither a broadcast nor a
\* reply.
C12_UnregisteredSenderIgnored ==
    [][\A addr \in Addrs :
         (/\ addr \notin DOMAIN players
          /\ \/ \E position \in Positions, rotation \in Rotations,
                   yield_control \in YieldValues :
                     handle_move(addr, position, rotation, yield_control)
             \/ \E player_to_shoot \in Names : handle_shoot(addr, player_to_shoot))
         => (/\ players' = players
             /\ state' = state
             /\ game_start_time' = game_start_time
             /\ maze_level' = maze_level
             /\ out' = << >>)
      ]_vars

\* C12 witness: with a record stored and an address left unregistered, the
\* last message handled sent nothing.
C12_Witness ==
    /\ players # << >>
    /\ \E addr \in Addrs : addr \notin DOMAIN players
    /\ \E a \in DOMAIN players : players[a].position = 1
    /\ out = << >>

\* C13: a ShotPlayer from a registered sender naming a username that no
\* record carries leaves every health, the registry and the match state as
\* they were and sends nothing.
C13_UnknownTargetIgnored ==
    [][\A addr \in Addrs, player_to_shoot \in Names :
         (/\ addr \in DOMAIN players
          /\ player_to_shoot \notin Usernames(players)
          /\ handle_shoot(addr, player_to_shoot))
         => (/\ players' = players
             /\ state' = state
             /\ game_start_time' = game_start_time
             /\ out' = << >>)
      ]_vars

\* C13 witness: every address that could send is registered, a username is
\* carried by no record, a record has been shot, and the last ShotPlayer
\* handled sent nothing.
C13_Witness ==
    /\ Cardinality(DOMAIN players) = MaxPlayers
    /\ Usernames(players) # Names
    /\ \E a \in DOMAIN players : hits[a] > 0
    /\ out = << >>

\* The place of a match state in the order Waiting, InProgress, Finished.
StateRank(st) == CASE st = "Waiting" -> 0 [] st = "InProgress" -> 1 [] st = "Finished" -> 2

\* C14: no step moves the match state backward in the order Waiting,
\* InProgress, Finished, and no step marks a started game un-started.
C14_StateForwardOnly ==
    [][/\ StateRank(state') >= StateRank(state)
       /\ is_game_started => is_game_started'
      ]_vars

\* C14 witness: the game has been marked started and the loop has handled
\* a further message of a registered player since (a PlayerShoot echo).
C14_Witness ==
    /\ is_game_started
    /\ lg_running
    /\ Len(lg_out) = 1
    /\ lg_out[1].msg.type = "PlayerShoot"

\* C15 (as stated): when a ShotPlayer handled while the match is InProgress
\* lowers a health and leaves exactly one record with health above 0, the
\* same step broadcasts GameOver naming that record's username and moves
\* the match state to Finished.
C15_FinishedWithGameOver ==
    [][\A addr \in Addrs, player_to_shoot \in Names :
         (/\ state = "InProgress"
          /\ handle_shoot(addr, player_to_shoot)
          /\ players' # players
          /\ Cardinality(AlivePlayers(players')) = 1)
         => (/\ \E i \in DOMAIN out', w \in AlivePlayers(players') :
                   out'[i].msg = GameOver(players'[w].username)
             /\ state' = "Finished")
      ]_vars

\* C16 (as stated): the maze level lies within 1..3, no step changes it,
\* and every GameStart that is sent carries it.
C16_MazeLevelFixedAndCarried ==
    [][/\ maze_level \in 1..3
       /\ maze_level' = maze_level
       /\ \A i \in DOMAIN out' :
            out'[i].msg.type = "GameStart"
                => (/\ "maze_level" \in DOMAIN out'[i].msg
                    /\ out'[i].msg.maze_level = maze_level)
      ]_vars

\* C17 (as stated): a datagram that does not decode is answered with one
\* Error message sent to its sender alone, leaves the registry and the
\* started flag as they were, and leaves the loop running.
C17_UndecodableAnswered ==
    [][\A addr \in Addrs :
         legacy_undecodable(addr)
         => (/\ Len(lg_out') = 1
             /\ lg_out'[1].to = {addr}
             /\ lg_out'[1].msg.type = "Error"
             /\ lg_players' = lg_players
             /\ is_game_started' = is_game_started
             /\ lg_running')
      ]_vars

\* C18 (as stated): when the send to one recipient fails during a
\* broadcast, every other registered address has still been sent the
\* message, and the failure has not reached the caller (the loop runs on).
C18_BroadcastToleratesFailure ==
    \A i \in DOMAIN lg_out :
        (/\ lg_out[i].failed # {}
         /\ DOMAIN lg_players \ lg_out[i].failed # {})
            => (/\ lg_out[i].to = DOMAIN lg_players \ lg_out[i].failed
                /\ lg_running)

\* C19 (as stated): the dispatch loop, once started, is never left.
C19_LoopNeverLeft == lg_running

\* C20 (as stated): no datagram is sent while the lock of the match is
\* held.
C20_NoSendUnderLock == \A i \in DOMAIN out : ~out[i].locked

\* C21: when a frame of the client processes a PlayerMove or a PlayerSpawn
\* whose player_id is not the client's own username, the mirror afterwards
\* has an entry for that username; the entry holds the position of the
\* message and, for a PlayerMove, its rotation.
C21_MirrorUpserted ==
    [][\A keys \in SeqsUpTo(KeyInputs, MaxKeys), msg \in MirrorMessages :
          (/\ msg.type \in {"PlayerMove", "PlayerSpawn"}
           /\ msg.player_id # ClientUsername
           /\ client_frame(keys, msg))
          => /\ msg.player_id \in DOMAIN other_players'
             /\ other_players'[msg.player_id].position = msg.position
             /\ msg.type = "PlayerMove"
                  => other_players'[msg.player_id].rotation = msg.rotation]_vars

\* C22: when the client processes a PlayerDeath whose player_id is not its
\* own username, no entity of that username is left afterwards and the
\* entities of the other usernames are the ones there were before.
C22_MirrorEntryRemoved ==
    [][\A n \in Names \ {ClientUsername},
          order \in IterationOrders(DOMAIN networked_players) :
          handle_network_player_updates(<<PlayerDeath(n, None)>>, order)
          => /\ EntitiesOf(networked_players', n) = {}
             /\ SelectSeq(networked_players', LAMBDA e : e.player_id # n)
                  = SelectSeq(networked_players, LAMBDA e : e.player_id # n)]_vars

\* C23: once the client has processed a PlayerDeath for its own username
\* it stays dead, and no later frame sends a Move or a ShotPlayer.
C23_DeadSendsNothing ==
    [][player_dead
         => /\ player_dead'
            /\ \A i \in DOMAIN cl_sent' :
                 cl_sent'[i].type \notin {"Move", "ShotPlayer"}]_vars

\* The events that end the loop on the game-over screen (main.rs 317-330).
ExitKeys == {"Quit", "Escape", "Return", "Space"}

\* C24: once the client has processed GameOver the flag stays set, no later
\* frame sends a Move or a ShotPlayer, and a key that is not an exit key
\* (Quit, Escape, Return, Space) changes nothing: the player stays where it
\* is and the loop goes on.
C24_GameOverTerminal ==
    [][game_over
         => /\ game_over'
            /\ \A i \in DOMAIN cl_sent' :
                 cl_sent'[i].type \notin {"Move", "ShotPlayer"}
            /\ \A keys \in SeqsUpTo(KeyInputs, MaxKeys) :
                 client_frame(keys, NoMessage)
                 => /\ player' = player
                    /\ running' = (\A k \in DOMAIN keys : keys[k].key \notin ExitKeys)]_vars

\* C25: the frame in which the client receives JoinGameError ends the loop
\* (so the client never starts playing and no later frame sends anything)
\* and sends no Move itself; the only sends of such a frame that come
\* before the datagram is read are the ShotPlayer of the key events.
C25_JoinErrorStops ==
    [][\A keys \in SeqsUpTo(KeyInputs, MaxKeys) :
          client_frame(keys, JoinGameError("Username already taken"))
          => /\ ~running'
             /\ game_started' = game_started
             /\ \A i \in DOMAIN cl_sent' : cl_sent'[i].type # "Move"]_vars

\* C26: every Move the client sends differs in position or in rotation from
\* the Move it sent before (so a frame in which neither changed since the
\* last Move sends none).
C26_MoveOnlyOnChange ==
    [][\A i \in DOMAIN cl_sent' :
          cl_sent'[i].type = "Move"
          => LastMoveOf(SubSeq(cl_sent', 1, i - 1), last_move)
               # <<cl_sent'[i].position, cl_sent'[i].rotation>>]_vars

C28_MoveFrameAndIdempotent ==
    [][\A addr \in Addrs, position \in Positions, rotation \in Rotations,
         yield_control \in YieldValues :
          handle_move(addr, position, rotation, yield_control)
          => /\ DOMAIN players' = DOMAIN players
             /\ \A a \in DOMAIN players :
                  /\ players'[a].username = players[a].username
                  /\ players'[a].health = players[a].health
                  /\ a # addr => players'[a] = players[a]
             /\ state' = state
             /\ game_start_time' = game_start_time
             /\ addr \in DOMAIN players
                  => MoveRegistry(players', addr, position, rotation) = players']_vars

\* C28 witness: a Move of a registered sender was handled while another
\* record had lost health.
C28_Witness ==
    /\ Len(out) = 1
    /\ out[1].msg.type = "PlayerMove"
    /\ out[1].msg.position = 1
    /\ \E a \in DOMAIN players : players[a].health < InitialHealth

\* C29: a ShotPlayer handled right after a ShotPlayer naming the same
\* username (the HealthUpdate of the first is the first send of the last
\* step) is applied again: the target loses Damage once more, saturating at
\* 0, which makes 20 for the two, and a second HealthUpdate with the new
\* health is broadcast.
C29_ShotNotIdempotent ==
    [][\A addr \in Addrs, name \in Names :
          (/\ addr \in DOMAIN players
           /\ out # << >>
           /\ out[1].msg.type = "HealthUpdate"
           /\ out[1].msg.player_id = name
           /\ handle_shoot(addr, name))
          => LET t == CHOOSE a \in TargetsOf(players, name) : TRUE
                 first == out[1].msg.health
                 second == Max0(first - Damage)
             IN  /\ players[t].health = first
                 /\ players'[t].health = second
                 /\ first > 0 => players'[t].health # players[t].health
                 /\ out'[1].msg = HealthUpdate(name, second)
                 /\ out'[1].to = DOMAIN players']_vars

\* C29 witness: the second of two shots at a record was handled; the
\* record is at 80 and the HealthUpdate of the last step says so.
C29_Witness ==
    \E a \in DOMAIN players :
        /\ hits[a] = 2
        /\ players[a].health = InitialHealth - 2 * Damage
        /\ out # << >>
        /\ out[1].msg = HealthUpdate(players[a].username, InitialHealth - 2 * Damage)

\* C30: in every match state and whatever the sender's health, a Move from
\* a registered sender is applied to its record and relayed to the whole
\* registry as PlayerMove, and a ShotPlayer from a registered sender that
\* names a registered username takes Damage off the target and is relayed
\* as HealthUpdate; neither changes the match state.
C30_HandledInEveryState ==
    [][/\ \A addr \in Addrs, position \in Positions :
            (addr \in DOMAIN players /\ handle_move(addr, position, 0, 0))
            => /\ players'[addr].position = position
               /\ players'[addr].rotation = 0
               /\ Len(out') = 1
               /\ out'[1].msg = PlayerMove(players[addr].username, position, 0, 0)
               /\ out'[1].to = DOMAIN players
               /\ state' = state
       /\ \A addr \in Addrs :
            (/\ addr \in DOMAIN players
             /\ TargetsOf(players, "bob") # {}
             /\ handle_shoot(addr, "bob"))
            => LET t == CHOOSE a \in TargetsOf(players, "bob") : TRUE
                   health == Max0(players[t].health - Damage)
               IN  /\ players'[t].health = health
                   /\ out'[1].msg = HealthUpdate("bob", health)
                   /\ out'[1].to = DOMAIN players
                   /\ state' = state]_vars

\* C30 witness: the match is InProgress, bob was at 0 already when his own
\* ShotPlayer at himself was handled, and the handler relayed it: HealthUpdate,
\* PlayerDeath naming bob as the killer, and GameOver once more.
C30_Witness ==
    /\ state = "InProgress"
    /\ Len(out) = 3
    /\ out[1].msg = HealthUpdate("bob", 0)
    /\ out[2].msg = PlayerDeath("bob", "bob")
    /\ out[3].msg.type = "GameOver"
    /\ \E a \in DOMAIN players : players[a].username = "bob" /\ hits[a] = MaxHits

\* C31: no step takes an address out of the registry; every PlayersInLobby
\* counts every registered address and lists every record's username, the
\* records at health 0 included; and a Move from a sender at health 0 is
\* applied to its record and relayed as PlayerMove.
C31_RegistryNeverShrinks ==
    [][/\ DOMAIN players \subseteq DOMAIN players'
       /\ \A i \in DOMAIN out' :
            out'[i].msg.type = "PlayersInLobby"
            => /\ out'[i].msg.player_count = Cardinality(DOMAIN players')
               /\ DOMAIN out'[i].msg.players = {players'[a].username : a \in DOMAIN players'}
               /\ out'[i].to = DOMAIN players'
       /\ \A addr \in Addrs, position \in Positions :
            (/\ addr \in DOMAIN players
             /\ players[addr].health = 0
             /\ handle_move(addr, position, 0, 0))
            => /\ players'[addr].position = position
               /\ Len(out') = 1
               /\ out'[1].msg = PlayerMove(players[addr].username, position, 0, 0)]_vars

\* C31 witness: a PlayersInLobby that counts two players was broadcast
\* while one of them, listed in it, is at health 0.
C31_Witness ==
    \E i \in DOMAIN out, a \in DOMAIN players :
        /\ out[i].msg.type = "PlayersInLobby"
        /\ out[i].msg.player_count = 2
        /\ players[a].health = 0
        /\ players[a].username \in DOMAIN out[i].msg.players

C33_GameOverOnlyInProgress ==
    \A i \in DOMAIN out :
        out[i].msg.type = "GameOver" => state = "InProgress"

\* C34: whenever GameOver{winner} is broadcast, exactly one registered
\* record has health above 0 and winner is the username of that record;
\* every other record has health 0.
C34_GameOverNamesSoleSurvivor ==
    \A i \in DOMAIN out :
        out[i].msg.type = "GameOver"
        => \E w \in DOMAIN players :
             /\ players[w].health > 0
             /\ players[w].username = out[i].msg.winner
             /\ \A a \in DOMAIN players \ {w} : players[a].health = 0

\* C34 witness: a GameOver was broadcast with two records registered, one
\* of them at health 0.
C34_Witness ==
    /\ PlayerCount(players) = 2
    /\ \E a \in DOMAIN players : players[a].health = 0
    /\ \E i \in DOMAIN out : out[i].msg.type = "GameOver"

\* The broadcasts of a step that carry a GameStart, with or without a
\* maze level.
GameStartsIn(sends) == {i \in DOMAIN sends : sends[i].msg.type = "GameStart"}

C36_HealthNeverIncreases ==
    [][\A a \in DOMAIN players :
         /\ a \in DOMAIN players'
         /\ players'[a].health <= players[a].health]_vars

\* C37: in the entity-based client there is at most one networked-player
\* entity per player_id after every frame.
C37_OneEntityPerPlayer ==
    \A n \in Names : Cardinality(EntitiesOf(networked_players, n)) <= 1

\* C38: the client's mirror of remote players holds no entry for the
\* client's own username: neither the map of the SDL client nor the
\* networked-player entities of the entity-based client.
C38_NoMirrorEntryForSelf ==
    /\ ClientUsername \notin DOMAIN other_players
    /\ EntitiesOf(networked_players, ClientUsername) = {}

\* C39: when a frame of the menu processes a GameStart, and every message
\* it processes after it is a PlayersInLobby, the pending next screen at the
\* end of the frame is InGame.
C39_GameStartLeadsToInGame ==
    [][\A events \in SeqsUpTo(MenuMessages, MaxEvents) :
         (/\ apply_state_transition(game_state, next_state) \in MenuScreens
          /\ \E k \in DOMAIN events :
               /\ events[k] = GameStart
               /\ \A j \in DOMAIN events : j > k => events[j].type = "PlayersInLobby"
          /\ handle_connection_status(events))
         => next_state' = "InGame"]_vars

\* Every entry of the mirror holds the position and the rotation that the
\* registry stores for its username.
MirrorMatchesRegistry ==
    \A n \in DOMAIN other_players :
        \E a \in DOMAIN players :
            /\ players[a].username = n
            /\ other_players[n].position = players[a].position
            /\ other_players[n].rotation = players[a].rotation

\* The mirror has no entry for a username whose record is at health 0.  The
\* client is registered before any other player, so the PlayerDeath of
\* every such record was addressed to it.
NoEntryForDead ==
    \A a \in DOMAIN players :
        players[a].health = 0 => players[a].username \notin DOMAIN other_players

\* C40: if from some point on the server handles no further datagram
\* (the players have stopped moving, shooting and joining), then, every
\* broadcast being delivered in order, eventually and from then on every
\* entry of the mirror of the client holds the position and rotation the
\* registry stores for that username, and the mirror has no entry for a
\* player whose PlayerDeath was delivered.
C40_MirrorEventuallyConsistent ==
    <>[][~ServerStep]_vars => <>[](MirrorMatchesRegistry /\ NoEntryForDead)

====
